---- MODULE Spec2Model ----
(***************************************************************************)
(* StagingBoss: the lineup resolution engine (row parser, lineup resolver) *)
(* of utils/lineupProcessor and the lineup store of contexts/AppContext.   *)
(*                                                                         *)
(* A JavaScript string is a sequence of one-character strings, so that     *)
(* trim, split and parseInt are computed character by character.           *)
(***************************************************************************)
EXTENDS Integers, Sequences, FiniteSets, TLC

VARIABLES classes, lineups, rawData, drivers, pass

vars == <<classes, lineups, rawData, drivers, pass>>

(***************************************************************************)
(* Bounds of the model                                                     *)
(***************************************************************************)
MaxLines == 3

MaxLongLines == 5

MaxDrivers == 4

MaxClasses == 3

MaxCars == 3

(***************************************************************************)
(* Characters and strings                                                  *)
(***************************************************************************)
TAB == "\t"

NL == "\n"

SP == " "

\* Number.MAX_SAFE_INTEGER is 2^53 - 1; the model's integers are 32 bits wide, so the
\* sentinel is the largest of those. No draw number of the model comes near either value.
MAX_SAFE_INTEGER == 2147483647

Digits == <<"0", "1", "2", "3", "4", "5", "6", "7", "8", "9">>

IsDigit(c) == \E i \in 1..Len(Digits) : Digits[i] = c

DigitVal(c) == (CHOOSE i \in 1..Len(Digits) : Digits[i] = c) - 1

IsWhite(c) == c \in {SP, TAB, NL}

MinOf(S) == CHOOSE x \in S : \A y \in S : x <= y

MaxOf(S) == CHOOSE x \in S : \A y \in S : y <= x

\* String.prototype.trim
Trim(s) ==
  LET keep == {i \in 1..Len(s) : ~IsWhite(s[i])}
  IN  IF keep = {} THEN <<>> ELSE SubSeq(s, MinOf(keep), MaxOf(keep))

\* String.prototype.split(sep) for a one-character separator
RECURSIVE Split(_, _)
Split(s, sep) ==
  LET at == {i \in 1..Len(s) : s[i] = sep}
  IN  IF at = {} THEN <<s>>
      ELSE <<SubSeq(s, 1, MinOf(at) - 1)>> \o Split(SubSeq(s, MinOf(at) + 1, Len(s)), sep)

\* Array.prototype.join(sep)
RECURSIVE Join(_, _)
Join(ss, sep) ==
  IF Len(ss) = 0 THEN <<>>
  ELSE IF Len(ss) = 1 THEN ss[1]
  ELSE ss[1] \o <<sep>> \o Join(Tail(ss), sep)

NaN == [nan |-> TRUE, val |-> 0]

RECURSIVE DigitsValue(_)
DigitsValue(ds) ==
  IF Len(ds) = 0 THEN 0
  ELSE 10 * DigitsValue(SubSeq(ds, 1, Len(ds) - 1)) + DigitVal(ds[Len(ds)])

\* parseInt(s, 10): leading white space, an optional sign, then the longest run of
\* digits; whatever follows the digits is ignored; no digit at all gives NaN.
parseInt(s) ==
  LET nonWhite == {i \in 1..Len(s) : ~IsWhite(s[i])}
      t == IF nonWhite = {} THEN <<>> ELSE SubSeq(s, MinOf(nonWhite), Len(s))
      signed == Len(t) > 0 /\ t[1] \in {"-", "+"}
      body == IF signed THEN Tail(t) ELSE t
      stop == {i \in 1..Len(body) : ~IsDigit(body[i])}
      n == IF stop = {} THEN Len(body) ELSE MinOf(stop) - 1
      mag == DigitsValue(SubSeq(body, 1, n))
  IN  IF n = 0 THEN NaN
      ELSE [nan |-> FALSE, val |-> IF signed /\ t[1] = "-" THEN 0 - mag ELSE mag]

(***************************************************************************)
(* Class registry                                                          *)
(***************************************************************************)
defaultClasses ==
  << [id |-> "1", name |-> "Super Late Models"],
     [id |-> "2", name |-> "Limited Late Models"],
     [id |-> "3", name |-> "Street Stock"] >>

\* classes.find(c => c.id === id): the index of the first match, 0 when there is none
FindClassIndex(cls, id) ==
  LET hit == {i \in 1..Len(cls) : cls[i].id = id}
  IN  IF hit = {} THEN 0 ELSE MinOf(hit)

(***************************************************************************)
(* Row parser                                                              *)
(***************************************************************************)
NoParse == [drivers |-> <<>>, errors |-> <<>>, driverRows |-> <<>>, errorRows |-> <<>>]

ParseError(n, k) == [line |-> n, kind |-> k]

\* The pill column of a row: the value and the warnings it raises
ParsePill(field, lineCounter) ==
  LET text == Trim(field)
      pillValue == parseInt(text)
  IN  IF text = <<>> THEN [pill |-> MAX_SAFE_INTEGER, errors |-> <<>>]
      ELSE IF ~pillValue.nan THEN [pill |-> pillValue.val, errors |-> <<>>]
      ELSE [pill |-> MAX_SAFE_INTEGER, errors |-> <<ParseError(lineCounter, "InvalidPill")>>]

\* ParseLine without the skip of blank lines
ParseLine_NoSkip(rawLine, lineCounter, classObj) ==
  LET line == Trim(rawLine)
      parts == Split(line, TAB)
      n == Len(parts)
      carNumber == Trim(parts[1])
      driverName ==
        IF n >= 4 THEN Trim(Trim(parts[3]) \o <<SP>> \o Trim(parts[2]))
        ELSE Trim(parts[2])
      pill ==
        IF n >= 4 THEN ParsePill(parts[4], lineCounter)
        ELSE IF n = 3 THEN ParsePill(parts[3], lineCounter)
        ELSE [pill |-> MAX_SAFE_INTEGER, errors |-> <<>>]
  IN  IF n < 2 THEN
        [drivers |-> <<>>, errors |-> <<ParseError(lineCounter, "NotEnoughData")>>]
      ELSE IF carNumber = <<>> \/ driverName = <<>> THEN
        [drivers |-> <<>>,
         errors |-> pill.errors \o <<ParseError(lineCounter, "MissingFields")>>]
      ELSE
        [drivers |-> << [carNumber |-> carNumber,
                         driverName |-> driverName,
                         pillNumber |-> pill.pill,
                         className |-> classObj.name,
                         classId |-> classObj.id] >>,
         errors |-> pill.errors]

\* ParseLine without the continue that follows the missing-fields error
ParseLine_NoContinue(rawLine, lineCounter, classObj) ==
  LET line == Trim(rawLine)
      parts == Split(line, TAB)
      n == Len(parts)
      carNumber == Trim(parts[1])
      driverName ==
        IF n >= 4 THEN Trim(Trim(parts[3]) \o <<SP>> \o Trim(parts[2]))
        ELSE Trim(parts[2])
      pill ==
        IF n >= 4 THEN ParsePill(parts[4], lineCounter)
        ELSE IF n = 3 THEN ParsePill(parts[3], lineCounter)
        ELSE [pill |-> MAX_SAFE_INTEGER, errors |-> <<>>]
      missing ==
        IF carNumber = <<>> \/ driverName = <<>>
        THEN <<ParseError(lineCounter, "MissingFields")>> ELSE <<>>
  IN  IF line = <<>> THEN [drivers |-> <<>>, errors |-> <<>>]
      ELSE IF n < 2 THEN
        [drivers |-> <<>>, errors |-> <<ParseError(lineCounter, "NotEnoughData")>>]
      ELSE
        [drivers |-> << [carNumber |-> carNumber,
                         driverName |-> driverName,
                         pillNumber |-> pill.pill,
                         className |-> classObj.name,
                         classId |-> classObj.id] >>,
         errors |-> pill.errors \o missing]

\* The body of the loop of parseRawData for one element of lines: the drivers and the
\* errors it pushes.
ParseLine(rawLine, lineCounter, classObj) ==
  LET line == Trim(rawLine)
      parts == Split(line, TAB)
      n == Len(parts)
      carNumber == Trim(parts[1])
      driverName ==
        IF n >= 4 THEN Trim(Trim(parts[3]) \o <<SP>> \o Trim(parts[2]))
        ELSE Trim(parts[2])
      pill ==
        IF n >= 4 THEN ParsePill(parts[4], lineCounter)
        ELSE IF n = 3 THEN ParsePill(parts[3], lineCounter)
        ELSE [pill |-> MAX_SAFE_INTEGER, errors |-> <<>>]
  IN  IF line = <<>> THEN [drivers |-> <<>>, errors |-> <<>>]
      ELSE IF n < 2 THEN
        [drivers |-> <<>>, errors |-> <<ParseError(lineCounter, "NotEnoughData")>>]
      ELSE IF carNumber = <<>> \/ driverName = <<>> THEN
        [drivers |-> <<>>,
         errors |-> pill.errors \o <<ParseError(lineCounter, "MissingFields")>>]
      ELSE
        [drivers |-> << [carNumber |-> carNumber,
                         driverName |-> driverName,
                         pillNumber |-> pill.pill,
                         className |-> classObj.name,
                         classId |-> classObj.id] >>,
         errors |-> pill.errors]

\* The number of line breaks in the white space that rawData.trim() removes from the
\* front of the text: lines[i] is row i + 1 + LeadingRows of the text as supplied.
LeadingRows(text) ==
  LET keep == {i \in 1..Len(text) : ~IsWhite(text[i])}
      first == IF keep = {} THEN Len(text) + 1 ELSE MinOf(keep)
  IN  Cardinality({i \in 1..(first - 1) : text[i] = NL})

Repeat(x, n) == [i \in 1..n |-> x]

\* The loop of parseRawData over lines[from..]; driverRows and errorRows record, for
\* each driver and each error pushed, the row of the supplied text it came from.
RECURSIVE ParseLines(_, _, _, _)
ParseLines(lines, i, classObj, lead) ==
  IF i > Len(lines) THEN NoParse
  ELSE LET one == ParseLine(lines[i], i, classObj)
           rest == ParseLines(lines, i + 1, classObj, lead)
       IN  [drivers |-> one.drivers \o rest.drivers,
            errors |-> one.errors \o rest.errors,
            driverRows |-> Repeat(i + lead, Len(one.drivers)) \o rest.driverRows,
            errorRows |-> Repeat(i + lead, Len(one.errors)) \o rest.errorRows]

GlobalError(k) ==
  [drivers |-> <<>>, errors |-> <<ParseError(0, k)>>, driverRows |-> <<>>, errorRows |-> <<0>>]

\* parseRawData without the check of an empty registry
parseRawData_NoRegistryCheck(text, cls, selectedClassId) ==
  IF Trim(text) = <<>> THEN GlobalError("NoData")
  ELSE IF FindClassIndex(cls, selectedClassId) = 0 THEN GlobalError("ClassNotFound")
  ELSE ParseLines(Split(Trim(text), NL), 1, cls[FindClassIndex(cls, selectedClassId)],
                  LeadingRows(text))

parseRawData(text, cls, selectedClassId) ==
  IF Trim(text) = <<>> THEN GlobalError("NoData")
  ELSE IF Len(cls) = 0 THEN GlobalError("NoClasses")
  ELSE IF FindClassIndex(cls, selectedClassId) = 0 THEN GlobalError("ClassNotFound")
  ELSE ParseLines(Split(Trim(text), NL), 1, cls[FindClassIndex(cls, selectedClassId)],
                  LeadingRows(text))

(***************************************************************************)
(* Lineup resolver                                                         *)
(***************************************************************************)
\* Array.prototype.sort(cmp) on a short array: the stable binary insertion sort of the
\* engine, which places each element after the elements it does not compare below.
InsertPos(sorted, x, Cmp(_, _)) ==
  LET bs[l \in 0..Len(sorted), r \in 0..Len(sorted)] ==
        IF l >= r THEN l
        ELSE LET mid == l + ((r - l) \div 2)
             IN  IF Cmp(x, sorted[mid + 1]) < 0 THEN bs[l, mid] ELSE bs[mid + 1, r]
  IN  bs[0, Len(sorted)]

Sort(s, Cmp(_, _)) ==
  LET acc[k \in 0..Len(s)] ==
        IF k = 0 THEN <<>>
        ELSE LET prev == acc[k - 1]
                 p == InsertPos(prev, s[k], Cmp)
             IN  SubSeq(prev, 1, p) \o <<s[k]>> \o SubSeq(prev, p + 1, Len(prev))
  IN  acc[Len(s)]

\* Array.prototype.filter
Filter(s, Keep(_)) ==
  LET acc[k \in 0..Len(s)] ==
        IF k = 0 THEN <<>>
        ELSE IF Keep(s[k]) THEN Append(acc[k - 1], s[k]) ELSE acc[k - 1]
  IN  acc[Len(s)]

\* The collation of the characters of the model, in the order localeCompare gives them.
\* Upper-case and lower-case letters never meet in one comparison of the model.
Collation ==
  <<SP, "-", "0", "1", "2", "3", "4", "5", "6", "7", "8", "9",
    "a", "A", "b", "B", "c", "C", "d", "D", "e", "E", "g", "G", "h", "H", "i", "I",
    "l", "L", "n", "N", "o", "O", "s", "S", "u", "U", "x", "X", "y", "Y">>

CharRank(c) == CHOOSE i \in 1..Len(Collation) : Collation[i] = c

\* String.prototype.localeCompare: -1, 0 or 1
localeCompare(a, b) ==
  LET diff == {i \in 1..Len(a) : i > Len(b) \/ a[i] # b[i]}
      k == MinOf(diff)
  IN  IF diff = {} THEN (IF Len(a) = Len(b) THEN 0 ELSE 0 - 1)
      ELSE IF k > Len(b) THEN 1
      ELSE IF CharRank(a[k]) < CharRank(b[k]) THEN 0 - 1 ELSE 1

\* carNumber.replace(/\D/g, '')
StripNonDigits(s) == Filter(s, IsDigit)

\* The comparator of withoutPills.sort
CarCmp(a, b) ==
  LET aNum == parseInt(StripNonDigits(a.carNumber))
      bNum == parseInt(StripNonDigits(b.carNumber))
  IN  IF ~aNum.nan /\ ~bNum.nan THEN aNum.val - bNum.val
      ELSE localeCompare(a.carNumber, b.carNumber)

\* PillThenOrderCmp with the car number, not the input order, as the tie-break
PillThenOrderCmp_ByCar(a, b) ==
  IF a.pillNumber # b.pillNumber THEN a.pillNumber - b.pillNumber
  ELSE CarCmp(a, b)

\* The comparator of withPills.sort when duplicates are resolved
PillThenOrderCmp(a, b) ==
  IF a.pillNumber # b.pillNumber THEN a.pillNumber - b.pillNumber
  ELSE a.originalOrder - b.originalOrder

\* PillCmp with its operands exchanged
PillCmp_Descending(a, b) == b.pillNumber - a.pillNumber

\* The comparator of withPills.sort when there is no duplicate
PillCmp(a, b) == a.pillNumber - b.pillNumber

\* { ...driver, originalOrder: index }
WithOrder(d, index) ==
  [carNumber |-> d.carNumber, driverName |-> d.driverName, pillNumber |-> d.pillNumber,
   className |-> d.className, classId |-> d.classId, originalOrder |-> index]

HasPill(d) == d.pillNumber # MAX_SAFE_INTEGER

HasNoPill(d) == d.pillNumber = MAX_SAFE_INTEGER

\* HasDuplicates that never finds one
HasDuplicates_Never(withPills) == FALSE

\* pillCounts and hasDuplicates; Math.floor is the identity on the integers parseInt gives
HasDuplicates(withPills) ==
  \E i, j \in 1..Len(withPills) : i < j /\ withPills[i].pillNumber = withPills[j].pillNumber

\* NextFreePill with a single step in place of the loop
NextFreePill_OneStep(originalPill, assignedPills) ==
  IF originalPill \in assignedPills THEN originalPill + 1 ELSE originalPill

\* NextFreePill without the loop
NextFreePill_NoAdvance(originalPill, assignedPills) == originalPill

\* while (assignedPills.has(currentPill)) currentPill++
NextFreePill(originalPill, assignedPills) ==
  MinOf({p \in originalPill..(originalPill + Cardinality(assignedPills)) : p \notin assignedPills})

\* withPills.forEach of the duplicate branch: resolvedPills after the first k drivers
ResolvePills(sorted) ==
  LET step[k \in 0..Len(sorted)] ==
        IF k = 0 THEN [resolvedPills |-> <<>>, assignedPills |-> {}]
        ELSE LET prev == step[k - 1]
                 currentPill == NextFreePill(sorted[k].pillNumber, prev.assignedPills)
             IN  [resolvedPills |->
                    Append(prev.resolvedPills, [sorted[k] EXCEPT !.pillNumber = currentPill]),
                  assignedPills |-> prev.assignedPills \cup {currentPill}]
  IN  step[Len(sorted)].resolvedPills

\* sortAndResolveDuplicatePills that returns resolvedPills alone when it finds duplicates
sortAndResolveDuplicatePills_DropsWithoutPills(ds) ==
  LET driversWithOrder == [i \in 1..Len(ds) |-> WithOrder(ds[i], i - 1)]
      withPills == Filter(driversWithOrder, HasPill)
      withoutPills == Filter(driversWithOrder, HasNoPill)
  IN  IF HasDuplicates(withPills)
      THEN ResolvePills(Sort(withPills, PillThenOrderCmp))
      ELSE Sort(withPills, PillCmp) \o Sort(withoutPills, CarCmp)

sortAndResolveDuplicatePills(ds) ==
  LET driversWithOrder == [i \in 1..Len(ds) |-> WithOrder(ds[i], i - 1)]
      withPills == Filter(driversWithOrder, HasPill)
      withoutPills == Filter(driversWithOrder, HasNoPill)
  IN  IF HasDuplicates(withPills)
      THEN \* finalSortedDrivers is built before withoutPills.sort runs
           ResolvePills(Sort(withPills, PillThenOrderCmp)) \o withoutPills
      ELSE Sort(withPills, PillCmp) \o Sort(withoutPills, CarCmp)

\* The keys of groupedByClass that are array indices, which Object.keys lists first and
\* in ascending order; every other key follows in insertion order.
IndexKeys == <<"1", "2", "3", "9">>

RECURSIVE Distinct(_)
Distinct(s) ==
  IF Len(s) = 0 THEN <<>>
  ELSE LET init == Distinct(SubSeq(s, 1, Len(s) - 1))
       IN  IF \E i \in 1..Len(init) : init[i] = s[Len(s)] THEN init
           ELSE Append(init, s[Len(s)])

\* Object.keys(groupedByClass)
GroupKeys(ds) ==
  LET ids == {ds[i].classId : i \in 1..Len(ds)}
      inOrder == Distinct([i \in 1..Len(ds) |-> ds[i].classId])
      IsIndexKey(k) == \E i \in 1..Len(IndexKeys) : IndexKeys[i] = k
      IsPresentIndexKey(k) == k \in ids
      IsOtherKey(k) == ~IsIndexKey(k)
  IN  Filter(IndexKeys, IsPresentIndexKey) \o Filter(inOrder, IsOtherKey)

processLineups(ds, cls) ==
  LET keys == GroupKeys(ds)
      lineupOf(classId) ==
        LET InClass(d) == d.classId = classId
            at == FindClassIndex(cls, classId)
        IN  [classId |-> classId,
             className |-> IF at = 0 THEN "Unknown Class" ELSE cls[at].name,
             drivers |-> sortAndResolveDuplicatePills(Filter(ds, InClass))]
  IN  [k \in 1..Len(keys) |-> lineupOf(keys[k])]

(***************************************************************************)
(* Lineup store and application context                                    *)
(***************************************************************************)
NULL == "null"

\* The outcome of the last call, as its caller sees it: the toasts raised, the value
\* returned, the intermediate results of a parse-and-resolve pass, and the output of a
\* call made on the result of an earlier one (a second resolution, an export).
Outcome(op, arg, parsed, processed, toasts, ret) ==
  [op |-> op, arg |-> arg, parsed |-> parsed, processed |-> processed,
   toasts |-> toasts, ret |-> ret, dropped |-> <<>>, output |-> <<>>]

\* The same, for a call whose setLineups updater dropped lineups from the store
OutcomeDropping(op, arg, parsed, processed, toasts, ret, dropped) ==
  [Outcome(op, arg, parsed, processed, toasts, ret) EXCEPT !.dropped = dropped]

NoPass == Outcome("none", "", NoParse, <<>>, <<>>, NULL)

\* MergeLineups as a full replacement of the store
MergeLineups_ReplaceAll(prev, processedLineups) == processedLineups

\* MergeLineups without the filter of the prior lineups
MergeLineups_Append(prev, processedLineups) == prev \o processedLineups

\* MergeLineups that keeps the store as it was
MergeLineups_KeepPrior(prev, processedLineups) == prev

\* The updater passed to setLineups in AppContext.processLineups
MergeLineups(prev, processedLineups) ==
  LET IsAbsent(lineup) ==
        ~\E k \in 1..Len(processedLineups) : processedLineups[k].classId = lineup.classId
  IN  Filter(prev, IsAbsent) \o processedLineups

getNextClass(cls, currentClassId) ==
  LET currentIndex == FindClassIndex(cls, currentClassId)
  IN  IF currentIndex = 0 THEN NULL ELSE cls[(currentIndex % Len(cls)) + 1].id

(***************************************************************************)
(* Export                                                                  *)
(***************************************************************************)
\* The comparator of [...drivers].sort in formatInsideOutsideData and in
\* formatInsideOutsideDataForExcel
ExportCmp(a, b) ==
  IF a.pillNumber = MAX_SAFE_INTEGER /\ b.pillNumber = MAX_SAFE_INTEGER THEN CarCmp(a, b)
  ELSE IF a.pillNumber = MAX_SAFE_INTEGER THEN 1
  ELSE IF b.pillNumber = MAX_SAFE_INTEGER THEN 0 - 1
  ELSE a.pillNumber - b.pillNumber

\* formatDriverName of the PDF export: the name without its first word
formatDriverName(driver) ==
  LET nameParts == Split(driver.driverName, SP)
  IN  IF Len(nameParts) = 1 THEN driver.driverName ELSE Join(Tail(nameParts), SP)

\* formatDriverName of the Excel export: first initial, then the rest of the name
formatDriverNameForExcel(driver) ==
  LET nameParts == Split(driver.driverName, SP)
      initial == IF nameParts[1] = <<>> THEN <<>> ELSE <<nameParts[1][1]>>
  IN  IF Len(nameParts) = 1 THEN driver.driverName
      ELSE initial \o <<".", SP>> \o Join(Tail(nameParts), SP)

\* `${carNumber} (${name})`
CellText(driver, name) == driver.carNumber \o <<SP, "(">> \o name \o <<")">>

\* The rows of the inside/outside table: row i holds entrant i of the sorted entrants
\* and entrant i + rows, or '' when there is none
formatInsideOutsideData(ds) ==
  LET sortedDrivers == Sort(ds, ExportCmp)
      totalDrivers == Len(sortedDrivers)
      rows == (totalDrivers + 1) \div 2
  IN  [i \in 1..rows |->
         << CellText(sortedDrivers[i], formatDriverName(sortedDrivers[i])),
            IF i + rows <= totalDrivers
            THEN CellText(sortedDrivers[i + rows], formatDriverName(sortedDrivers[i + rows]))
            ELSE <<>> >>]

formatInsideOutsideDataForExcel(ds) ==
  LET sortedDrivers == Sort(ds, ExportCmp)
      totalDrivers == Len(sortedDrivers)
      rows == (totalDrivers + 1) \div 2
  IN  [i \in 1..rows |->
         << CellText(sortedDrivers[i], formatDriverNameForExcel(sortedDrivers[i])),
            IF i + rows <= totalDrivers
            THEN CellText(sortedDrivers[i + rows],
                          formatDriverNameForExcel(sortedDrivers[i + rows]))
            ELSE <<>> >>]

ExportFormats == {"pdf", "excel"}

\* exportLineups of the export utilities: one table for each lineup
exportLineups(ls, exportFormat) ==
  [k \in 1..Len(ls) |->
     [className |-> ls[k].className,
      drivers |-> IF exportFormat = "pdf" THEN formatInsideOutsideData(ls[k].drivers)
                  ELSE formatInsideOutsideDataForExcel(ls[k].drivers)]]

(***************************************************************************)
(* Inputs of the model                                                     *)
(***************************************************************************)
SeqsUpTo(S, n) == UNION {[1..k -> S] : k \in 0..n}

\* Rows of raw text: blank, one field, two, three and four fields, with padding, with an
\* empty first or second field, with a pill column that is not a number or only starts
\* with one, with an empty last column.
LineSet ==
  { <<>>,
    <<SP>>,
    <<"7">>,
    <<"7", TAB, "A">>,
    <<"8", TAB, "B", TAB, "5">>,
    <<"9", TAB, "C", TAB, "5", "x">>,
    <<"9", TAB, "C", TAB, "x">>,
    <<TAB, "B", TAB, "5">>,
    <<"7", TAB, TAB, "5">>,
    <<"7", TAB, SP, TAB, "x">>,
    <<"3", TAB, "S", TAB, "A", TAB, "6">>,
    <<"3", TAB, "S", TAB, "A", TAB, "x">>,
    <<SP, "4", SP, TAB, SP, "D", SP, TAB, SP, "5", SP>>,
    <<"7", TAB, "A", TAB>>,
    <<"3", TAB, "S", TAB, "A", TAB>> }

CoreLines == { <<>>, <<"7">>, <<"8", TAB, "B", TAB, "5">> }

Texts ==
  {Join(ls, NL) : ls \in SeqsUpTo(LineSet, MaxLines)}
    \cup {Join(ls, NL) : ls \in SeqsUpTo(CoreLines, MaxLongLines)}

ParserSelections == {"1", "9"}

Entrant(car, name, pill, classId, className) ==
  [carNumber |-> car, driverName |-> name, pillNumber |-> pill,
   className |-> className, classId |-> classId]

DriverPool ==
  { Entrant(<<"7">>, <<"A", "n", "n">>, 5, "1", "Super Late Models"),
    Entrant(<<"9">>, <<"B", "o">>, 5, "1", "Super Late Models"),
    Entrant(<<"3">>, <<"C", "y">>, 5, "1", "Super Late Models"),
    Entrant(<<"1", "2">>, <<"D", "i">>, 6, "1", "Super Late Models"),
    Entrant(<<"5">>, <<"E", "d">>, 7, "1", "Super Late Models"),
    Entrant(<<"1", "2">>, <<"G", "u", "s">>, MAX_SAFE_INTEGER, "1", "Super Late Models"),
    Entrant(<<"5">>, <<"H", "a", "l">>, MAX_SAFE_INTEGER, "1", "Super Late Models"),
    Entrant(<<"9", "a">>, <<"I", "d", "a">>, MAX_SAFE_INTEGER, "1", "Super Late Models"),
    Entrant(<<"4">>, <<"L", "o", "u">>, 6, "2", "Limited Late Models") }

DriverSeqs == SeqsUpTo(DriverPool, MaxDrivers)

\* Car numbers: digits only, digits then letters, two runs of digits, letters then
\* digits, no digit at all
CarNumbers ==
  { <<"1", "2">>, <<"5">>, <<"9", "a">>, <<"1", "a", "2">>,
    <<"c", "1">>, <<"a", "2">>, <<"b">> }

\* Entrants of one class without a draw number, one for each car number
CarPool ==
  {Entrant(c, <<"X">>, MAX_SAFE_INTEGER, "1", "Super Late Models") : c \in CarNumbers}

CarSeqs == SeqsUpTo(CarPool, MaxCars)

\* Class registries handed to the resolver: the default one, and one that lacks the
\* class of the entrants
Registries == {defaultClasses, Tail(defaultClasses)}

AppTexts ==
  { <<>>,
    <<SP>>,
    <<"7">>,
    <<"7", TAB, "A", TAB, "5", NL, "9", TAB, "B", TAB, "5">>,
    <<"7", TAB, "A", TAB, "5", NL, "8", NL, "9", TAB, "B", TAB, "x">> }

NewIds == {"1700000000000"}

NewNames == {"Modified"}

AllIds == {"1", "2", "3"} \cup NewIds

\* The classes the class manager edits
UpdatedIds == {"1"}

(***************************************************************************)
(* Operations of the application context                                   *)
(***************************************************************************)
Init ==
  /\ classes = defaultClasses
  /\ lineups = <<>>
  /\ rawData = <<>>
  /\ drivers = <<>>
  /\ pass = NoPass

\* addClass, called by the class manager with id Date.now().toString()
AddClass(id, name) ==
  /\ Len(classes) < MaxClasses
  /\ \A i \in 1..Len(classes) : classes[i].id # id
  /\ classes' = Append(classes, [id |-> id, name |-> name])
  /\ pass' = Outcome("addClass", "", NoParse, <<>>, <<"Class Added">>, NULL)
  /\ UNCHANGED <<lineups, rawData, drivers>>

UpdateClass(id, name) ==
  /\ classes' = [i \in 1..Len(classes) |->
                   IF classes[i].id = id THEN [id |-> id, name |-> name] ELSE classes[i]]
  /\ pass' = Outcome("updateClass", "", NoParse, <<>>, <<"Class Updated">>, NULL)
  /\ UNCHANGED <<lineups, rawData, drivers>>

\* RemoveClass without the cascade to the lineup store
RemoveClass_NoCascade(classId) ==
  LET Others(c) == c.id # classId
  IN  IF FindClassIndex(classes, classId) = 0
      THEN /\ pass' = Outcome("removeClass", classId, NoParse, <<>>, <<>>, NULL)
           /\ UNCHANGED <<classes, lineups, rawData, drivers>>
      ELSE /\ classes' = Filter(classes, Others)
           /\ pass' = Outcome("removeClass", classId, NoParse, <<>>, <<"Class Removed">>, NULL)
           /\ UNCHANGED <<lineups, rawData, drivers>>

RemoveClass(classId) ==
  LET Others(c) == c.id # classId
      OtherLineups(lineup) == lineup.classId # classId
      OwnLineups(lineup) == lineup.classId = classId
  IN  IF FindClassIndex(classes, classId) = 0
      THEN /\ pass' = Outcome("removeClass", classId, NoParse, <<>>, <<>>, NULL)
           /\ UNCHANGED <<classes, lineups, rawData, drivers>>
      ELSE /\ classes' = Filter(classes, Others)
           /\ lineups' = Filter(lineups, OtherLineups)
           /\ pass' = OutcomeDropping("removeClass", classId, NoParse, <<>>,
                                      <<"Class Removed">>, NULL, Filter(lineups, OwnLineups))
           /\ UNCHANGED <<rawData, drivers>>

SetRawData(data) ==
  /\ rawData' = data
  /\ pass' = Outcome("setRawData", "", NoParse, <<>>, <<>>, NULL)
  /\ UNCHANGED <<classes, lineups, drivers>>

ClearLineups ==
  /\ lineups' = <<>>
  /\ rawData' = <<>>
  /\ pass' = Outcome("clearLineups", "", NoParse, <<>>, <<"Lineups Cleared">>, NULL)
  /\ UNCHANGED <<classes, drivers>>

\* ProcessLineups without the return that follows an empty parse
ProcessLineups_NoEmptyCheck(selectedClassId) ==
  IF Trim(rawData) = <<>>
  THEN /\ pass' = Outcome("processLineups", selectedClassId, NoParse, <<>>,
                          <<"No Data">>, NULL)
       /\ UNCHANGED <<classes, lineups, rawData, drivers>>
  ELSE IF selectedClassId = ""
  THEN /\ pass' = Outcome("processLineups", selectedClassId, NoParse, <<>>,
                          <<"No Class Selected">>, NULL)
       /\ UNCHANGED <<classes, lineups, rawData, drivers>>
  ELSE \E parsed \in {parseRawData(rawData, classes, selectedClassId)} :
       \E warnings \in {[i \in 1..Len(parsed.errors) |-> "Warning"]} :
       \E processedLineups \in {processLineups(parsed.drivers, classes)} :
       \E nextClass \in {getNextClass(classes, selectedClassId)} :
         /\ lineups' = MergeLineups(lineups, processedLineups)
         /\ rawData' = IF nextClass # NULL
                          /\ ~\E i \in 1..Len(lineups) : lineups[i].classId = nextClass
                       THEN <<>> ELSE rawData
         /\ pass' = Outcome("processLineups", selectedClassId, parsed, processedLineups,
                            warnings \o <<"Lineup Processed">>, nextClass)
         /\ UNCHANGED <<classes, drivers>>

\* ProcessLineups without its two early returns
ProcessLineups_NoPrecheck(selectedClassId) ==
  \E parsed \in {parseRawData(rawData, classes, selectedClassId)} :
  \E warnings \in {[i \in 1..Len(parsed.errors) |-> "Warning"]} :
    IF Len(parsed.drivers) = 0
    THEN /\ pass' = Outcome("processLineups", selectedClassId, parsed, <<>>,
                            warnings \o <<"No Valid Drivers">>, NULL)
         /\ UNCHANGED <<classes, lineups, rawData, drivers>>
    ELSE \E processedLineups \in {processLineups(parsed.drivers, classes)} :
         \E nextClass \in {getNextClass(classes, selectedClassId)} :
           /\ lineups' = MergeLineups(lineups, processedLineups)
           /\ rawData' = IF nextClass # NULL
                            /\ ~\E i \in 1..Len(lineups) : lineups[i].classId = nextClass
                         THEN <<>> ELSE rawData
           /\ pass' = Outcome("processLineups", selectedClassId, parsed, processedLineups,
                              warnings \o <<"Lineup Processed">>, nextClass)
           /\ UNCHANGED <<classes, drivers>>

\* AppContext.processLineups(selectedClassId)
ProcessLineups(selectedClassId) ==
  IF Trim(rawData) = <<>>
  THEN /\ pass' = Outcome("processLineups", selectedClassId, NoParse, <<>>,
                          <<"No Data">>, NULL)
       /\ UNCHANGED <<classes, lineups, rawData, drivers>>
  ELSE IF selectedClassId = ""
  THEN /\ pass' = Outcome("processLineups", selectedClassId, NoParse, <<>>,
                          <<"No Class Selected">>, NULL)
       /\ UNCHANGED <<classes, lineups, rawData, drivers>>
  ELSE \E parsed \in {parseRawData(rawData, classes, selectedClassId)} :
       \E warnings \in {[i \in 1..Len(parsed.errors) |-> "Warning"]} :
         IF Len(parsed.drivers) = 0
         THEN /\ pass' = Outcome("processLineups", selectedClassId, parsed, <<>>,
                                 warnings \o <<"No Valid Drivers">>, NULL)
              /\ UNCHANGED <<classes, lineups, rawData, drivers>>
         ELSE \E processedLineups \in {processLineups(parsed.drivers, classes)} :
              \E nextClass \in {getNextClass(classes, selectedClassId)} :
                LET hasLineupData ==
                      \E i \in 1..Len(lineups) : lineups[i].classId = nextClass
                    IsReplaced(lineup) ==
                      \E k \in 1..Len(processedLineups) :
                        processedLineups[k].classId = lineup.classId
                IN  /\ lineups' = MergeLineups(lineups, processedLineups)
                    /\ rawData' = IF nextClass # NULL /\ ~hasLineupData
                                  THEN <<>> ELSE rawData
                    /\ pass' = OutcomeDropping("processLineups", selectedClassId,
                                               parsed, processedLineups,
                                               warnings \o <<"Lineup Processed">>,
                                               nextClass, Filter(lineups, IsReplaced))
                    /\ UNCHANGED <<classes, drivers>>

Next ==
  \/ \E id \in NewIds, name \in NewNames : AddClass(id, name)
  \/ \E id \in UpdatedIds, name \in NewNames : UpdateClass(id, name)
  \/ \E id \in AllIds : RemoveClass(id)
  \/ \E data \in AppTexts : SetRawData(data)
  \/ ClearLineups
  \/ \E id \in AllIds \cup {""} : ProcessLineups(id)

Spec == Init /\ [][Next]_vars

(***************************************************************************)
(* The row parser alone, on every text of Texts                            *)
(***************************************************************************)
InitParser ==
  /\ classes \in {defaultClasses, <<>>}
  /\ lineups = <<>>
  /\ rawData \in Texts
  /\ drivers = <<>>
  /\ pass = NoPass

ParseRawData(selectedClassId) ==
  /\ pass.op = "none"
  /\ pass' = Outcome("parseRawData", selectedClassId,
                     parseRawData(rawData, classes, selectedClassId), <<>>, <<>>, NULL)
  /\ UNCHANGED <<classes, lineups, rawData, drivers>>

NextParser == \E id \in ParserSelections : ParseRawData(id)

SpecParser == InitParser /\ [][NextParser]_vars

(***************************************************************************)
(* The lineup resolver alone, on every sequence of DriverSeqs              *)
(***************************************************************************)
InitResolver ==
  /\ classes = defaultClasses
  /\ lineups = <<>>
  /\ rawData = <<>>
  /\ drivers \in DriverSeqs
  /\ pass = NoPass

\* Resolve with the sort applied to the caller's array instead of a copy
Resolve_SortsInput ==
  /\ pass.op = "none"
  /\ pass' = Outcome("resolve", "", NoParse, processLineups(drivers, classes), <<>>, NULL)
  /\ drivers' = Sort(drivers, PillCmp)
  /\ UNCHANGED <<classes, lineups, rawData>>

\* processLineups(drivers, classes): the groups are new arrays (112-119), each group is
\* copied before it is resolved (124), and the resolver sorts only the arrays it builds
\* from copies of the entrants (141-156), so the caller's array is left as it was.
Resolve ==
  /\ pass.op = "none"
  /\ pass' = Outcome("resolve", "", NoParse, processLineups(drivers, classes), <<>>, NULL)
  /\ UNCHANGED <<classes, lineups, rawData, drivers>>

\* The resolver applied to the entrants of the lineups it returned
ResolveAgain ==
  /\ pass.op = "resolve"
  /\ pass' = [pass EXCEPT !.op = "resolveAgain",
                          !.output = [k \in 1..Len(pass.processed) |->
                                        sortAndResolveDuplicatePills(pass.processed[k].drivers)]]
  /\ UNCHANGED <<classes, lineups, rawData, drivers>>

\* The export utilities applied to the lineups the resolver returned
ExportLineups(exportFormat) ==
  /\ pass.op = "resolve"
  /\ pass' = [pass EXCEPT !.op = "exportLineups", !.arg = exportFormat,
                          !.output = exportLineups(pass.processed, exportFormat)]
  /\ UNCHANGED <<classes, lineups, rawData, drivers>>

NextResolver ==
  \/ Resolve
  \/ ResolveAgain
  \/ \E exportFormat \in ExportFormats : ExportLineups(exportFormat)

SpecResolver == InitResolver /\ [][NextResolver]_vars

(***************************************************************************)
(* The lineup resolver on entrants without a draw number, which it orders  *)
(* by the car-number comparator alone                                      *)
(***************************************************************************)
InitComparator ==
  /\ classes \in Registries
  /\ lineups = <<>>
  /\ rawData = <<>>
  /\ drivers \in CarSeqs
  /\ pass = NoPass

NextComparator == Resolve

SpecComparator == InitComparator /\ [][NextComparator]_vars

(***************************************************************************)
(* Properties of the lineup resolver (SpecResolver)                        *)
(***************************************************************************)
\* The entrants of one class in the input of the resolver, in input order
InputOfClass(classId) ==
  LET InClass(d) == d.classId = classId
  IN  Filter(drivers, InClass)

\* The draw number an entrant of a resolved lineup had in the input
InputPill(lineup, o) == InputOfClass(lineup.classId)[o.originalOrder + 1].pillNumber

\* The entrants of a resolved lineup that shared the draw number d in the input
SharersOf(lineup, d) ==
  {p \in 1..Len(lineup.drivers) : InputPill(lineup, lineup.drivers[p]) = d}

\* The position in a resolved lineup of the first entrant, in input order, of those
\* that shared the draw number d
FirstSharer(lineup, d) ==
  CHOOSE p \in SharersOf(lineup, d) :
    \A q \in SharersOf(lineup, d) :
      lineup.drivers[p].originalOrder <= lineup.drivers[q].originalOrder

SharedPills(lineup) ==
  {d \in {InputPill(lineup, lineup.drivers[p]) : p \in 1..Len(lineup.drivers)} :
     d # MAX_SAFE_INTEGER /\ Cardinality(SharersOf(lineup, d)) > 1}

Project(d) == <<d.carNumber, d.driverName, d.pillNumber>>

\* C1: in every lineup the resolver returns, no two entrants that have a draw number
\* share the same effective draw number.
C1_UniqueDrawNumbers ==
  \A k \in 1..Len(pass.processed) :
    LET ds == pass.processed[k].drivers
    IN  \A i, j \in 1..Len(ds) :
          (i < j /\ HasPill(ds[i]) /\ HasPill(ds[j]))
            => ds[i].pillNumber # ds[j].pillNumber

\* C1 witness: a class resolved whose input held two groups of equal draw numbers, one
\* next to the other.
C1_Witness ==
  /\ pass.op = "resolve"
  /\ \E k \in 1..Len(pass.processed) :
       \E d \in SharedPills(pass.processed[k]) : (d + 1) \in SharedPills(pass.processed[k])

\* C4 as stated: of the entrants of a class that share a draw number, the first in input
\* order keeps that draw number.
C4_FirstKeepsDrawNumber ==
  \A k \in 1..Len(pass.processed) :
    \A d \in SharedPills(pass.processed[k]) :
      pass.processed[k].drivers[FirstSharer(pass.processed[k], d)].pillNumber = d

\* C4 as amended: the entrants of a class that share a draw number d come out in input
\* order, whatever their car numbers; the first receives the smallest integer >= d that
\* no entrant with a smaller draw number received, and each later one the integer that
\* follows its predecessor's; [("7","Ann",5), ("9","Bo",5), ("3","Cy",5)] resolves to
\* Ann(5), Bo(6), Cy(7).
C4_InputOrderTieBreak ==
  /\ \A k \in 1..Len(pass.processed) :
       LET lineup == pass.processed[k]
           ds == lineup.drivers
       IN  \A d \in SharedPills(lineup) :
             LET first == FirstSharer(lineup, d)
                 below == {ds[p].pillNumber : p \in {q \in 1..Len(ds) : InputPill(lineup, ds[q]) < d}}
             IN  /\ ds[first].pillNumber >= d
                 /\ ds[first].pillNumber \notin below
                 /\ \A v \in d..(ds[first].pillNumber - 1) : v \in below
                 /\ \A p, q \in SharersOf(lineup, d) :
                      ds[p].originalOrder < ds[q].originalOrder
                        => /\ p < q
                           /\ ((\A r \in SharersOf(lineup, d) :
                                  ~(ds[p].originalOrder < ds[r].originalOrder
                                    /\ ds[r].originalOrder < ds[q].originalOrder))
                                => q = p + 1 /\ ds[q].pillNumber = ds[p].pillNumber + 1)
  /\ (pass.op = "resolve"
      /\ [i \in 1..Len(drivers) |-> Project(drivers[i])]
           = << <<(<<"7">>), <<"A", "n", "n">>, 5>>,
                <<(<<"9">>), <<"B", "o">>, 5>>,
                <<(<<"3">>), <<"C", "y">>, 5>> >>)
       => [i \in 1..3 |-> Project(pass.processed[1].drivers[i])]
            = << <<(<<"7">>), <<"A", "n", "n">>, 5>>,
                 <<(<<"9">>), <<"B", "o">>, 6>>,
                 <<(<<"3">>), <<"C", "y">>, 7>> >>

\* C4 witness: Ann, Bo and Cy, all with draw number 5, have been resolved.
C4_Witness ==
  /\ pass.op = "resolve"
  /\ Len(drivers) = 3
  /\ \A i \in 1..3 : drivers[i].pillNumber = 5
  /\ drivers[1].carNumber = <<"7">> /\ drivers[2].carNumber = <<"9">>
  /\ drivers[3].carNumber = <<"3">>
  /\ pass.processed[1].drivers[3].pillNumber = 7

\* C5: in every lineup the resolver returns, the entrants with a draw number come
\* first, and the entrants without one follow in the order of the car-number
\* comparator, whether or not the class holds duplicate draw numbers.
C5_WithoutDrawInCarOrder ==
  \A k \in 1..Len(pass.processed) :
    LET ds == pass.processed[k].drivers
    IN  \A i, j \in 1..Len(ds) :
          i < j => /\ HasNoPill(ds[i]) => HasNoPill(ds[j])
                   /\ (HasNoPill(ds[i]) /\ HasNoPill(ds[j])) => CarCmp(ds[i], ds[j]) <= 0

\* C6: in every lineup the resolver returns, of two entrants with a draw number the one
\* at the earlier position has the strictly smaller effective draw number.
C6_AscendingDrawNumbers ==
  \A k \in 1..Len(pass.processed) :
    LET ds == pass.processed[k].drivers
    IN  \A i, j \in 1..Len(ds) :
          (i < j /\ HasPill(ds[i]) /\ HasPill(ds[j]))
            => ds[i].pillNumber < ds[j].pillNumber

\* C6 witness: a class resolved whose input held a duplicate draw number after a larger
\* draw number.
C6_Witness ==
  /\ pass.op = "resolve"
  /\ \E k \in 1..Len(pass.processed) :
       LET input == InputOfClass(pass.processed[k].classId)
       IN  \E i, j, m \in 1..Len(input) :
             /\ i < j /\ j < m
             /\ input[j].pillNumber = input[m].pillNumber
             /\ input[j].pillNumber < input[i].pillNumber
             /\ HasPill(input[i])

\* C7: when all entrants of a class have a draw number and no two are equal, the lineup
\* lists them in ascending order of draw number and each keeps its own draw number.
C7_NoCollisionKeepsNumbers ==
  \A k \in 1..Len(pass.processed) :
    LET lineup == pass.processed[k]
        ds == lineup.drivers
        input == InputOfClass(lineup.classId)
    IN  (/\ \A i \in 1..Len(input) : HasPill(input[i])
         /\ \A i, j \in 1..Len(input) : i # j => input[i].pillNumber # input[j].pillNumber)
          => /\ Len(ds) = Len(input)
             /\ \A p \in 1..Len(ds) : Project(ds[p]) = Project(input[ds[p].originalOrder + 1])
             /\ \A p, q \in 1..Len(ds) : p # q => ds[p].originalOrder # ds[q].originalOrder
             /\ \A p, q \in 1..Len(ds) : p < q => ds[p].pillNumber < ds[q].pillNumber

\* C7 witness: three entrants with distinct draw numbers, given out of order, have been
\* resolved.
C7_Witness ==
  /\ pass.op = "resolve"
  /\ Len(drivers) = 3
  /\ \A i \in 1..3 : drivers[i].classId = "1" /\ HasPill(drivers[i])
  /\ drivers[1].pillNumber > drivers[2].pillNumber
  /\ drivers[2].pillNumber > drivers[3].pillNumber

(***************************************************************************)
(* Properties of the lineup store (Spec)                                   *)
(***************************************************************************)
\* C2: merging a resolution pass into the store replaces, for every classId of the new
\* result, the prior lineup of that classId entirely, and carries over unchanged every
\* stored lineup whose classId is absent from the new result.
C2_MergeReplacesByClass ==
  [][(pass'.op = "processLineups" /\ pass'.processed # <<>>)
       => LET incoming == pass'.processed
              InIncoming(id) == \E k \in 1..Len(incoming) : incoming[k].classId = id
          IN  /\ \A k \in 1..Len(incoming) :
                   /\ Cardinality({i \in 1..Len(lineups') :
                                     lineups'[i].classId = incoming[k].classId}) = 1
                   /\ \E i \in 1..Len(lineups') : lineups'[i] = incoming[k]
              /\ \A i \in 1..Len(lineups) :
                   ~InIncoming(lineups[i].classId)
                     => \E j \in 1..Len(lineups') : lineups'[j] = lineups[i]
              /\ \A j \in 1..Len(lineups') :
                   \/ InIncoming(lineups'[j].classId)
                   \/ \E i \in 1..Len(lineups) : lineups[i] = lineups'[j]]_vars

\* C2 witness: a store holding lineups of two classes has had the lineup of one of them
\* replaced by a pass with different entrants.
C2_Witness ==
  /\ pass.op = "processLineups"
  /\ Len(pass.dropped) = 1
  /\ Len(pass.processed) = 1
  /\ pass.dropped[1].classId = pass.processed[1].classId
  /\ pass.dropped[1].drivers # pass.processed[1].drivers
  /\ Len(lineups) = 2

\* C3: the lineup store never holds a lineup whose classId is not the id of a class of
\* the registry; removeClass(c) removes the lineup of c.
C3_NoOrphanLineups ==
  /\ \A i \in 1..Len(lineups) : \E j \in 1..Len(classes) : classes[j].id = lineups[i].classId
  /\ pass.op = "removeClass"
       => \A i \in 1..Len(lineups) : lineups[i].classId # pass.arg

\* C3 witness: removeClass has dropped the lineup of the removed class while the lineup
\* of another class stays in the store.
C3_Witness ==
  /\ pass.op = "removeClass"
  /\ pass.dropped # <<>>
  /\ lineups # <<>>

(***************************************************************************)
(* Properties of the row parser (SpecParser)                               *)
(***************************************************************************)
\* The rows of the raw text as supplied, and the tab-separated fields of row k
RawRows == Split(rawData, NL)

RowFields(k) == Split(RawRows[k], TAB)

RowCar(k) == Trim(RowFields(k)[1])

RowDriver(k) ==
  IF Len(RowFields(k)) = 4
  THEN Trim(Trim(RowFields(k)[3]) \o <<SP>> \o Trim(RowFields(k)[2]))
  ELSE Trim(RowFields(k)[2])

RowPillText(k) == Trim(RowFields(k)[Len(RowFields(k))])

\* A text that is the decimal notation of an integer
IsIntegerText(t) ==
  LET body == IF Len(t) > 0 /\ t[1] \in {"-", "+"} THEN Tail(t) ELSE t
  IN  Len(body) > 0 /\ \A i \in 1..Len(body) : IsDigit(body[i])

\* parseRawData has gone through the rows of a text for a class of the registry
RowsParsed ==
  /\ pass.op = "parseRawData"
  /\ Trim(rawData) # <<>>
  /\ FindClassIndex(classes, pass.arg) # 0

\* The entrants and the errors that came from row k
DriversOfRow(k) == {i \in 1..Len(pass.parsed.driverRows) : pass.parsed.driverRows[i] = k}

ErrorsOfRow(k) == {i \in 1..Len(pass.parsed.errorRows) : pass.parsed.errorRows[i] = k}

\* C8: every non-blank row with fewer than 2 tab-separated fields yields exactly one
\* error, which cites the number of that row, and no entrant; every valid row still
\* yields its entrant.
C8_MalformedRowIsolated ==
  RowsParsed =>
    \A k \in 1..Len(RawRows) :
      /\ (Trim(RawRows[k]) # <<>> /\ Len(RowFields(k)) < 2)
           => /\ DriversOfRow(k) = {}
              /\ Cardinality(ErrorsOfRow(k)) = 1
              /\ \A e \in ErrorsOfRow(k) : pass.parsed.errors[e].line = k
      /\ (Len(RowFields(k)) \in 2..4 /\ RowCar(k) # <<>> /\ RowDriver(k) # <<>>)
           => Cardinality(DriversOfRow(k)) = 1

\* C9: a row of 2 to 4 fields whose car-number field or driver-name field is empty
\* after trimming produces an error and no entrant.
C9_EmptyRequiredFieldRejected ==
  RowsParsed =>
    \A k \in 1..Len(RawRows) :
      (Len(RowFields(k)) \in 2..4 /\ (RowCar(k) = <<>> \/ RowDriver(k) = <<>>))
        => /\ DriversOfRow(k) = {}
           /\ ErrorsOfRow(k) # {}

\* C10: a row of 3 or 4 fields whose last field is not an integer is kept as an entrant
\* without a draw number, with one warning for the row.
C10_InvalidDrawKeepsRow ==
  RowsParsed =>
    \A k \in 1..Len(RawRows) :
      (/\ Len(RowFields(k)) \in 3..4
       /\ RowCar(k) # <<>> /\ RowDriver(k) # <<>>
       /\ RowPillText(k) # <<>> /\ ~IsIntegerText(RowPillText(k)))
        => /\ Cardinality(DriversOfRow(k)) = 1
           /\ \A i \in DriversOfRow(k) : pass.parsed.drivers[i].pillNumber = MAX_SAFE_INTEGER
           /\ Cardinality({e \in ErrorsOfRow(k) :
                             pass.parsed.errors[e].kind = "InvalidPill"}) = 1

\* C11: the row parser dispatches on the number of tab-separated fields of a row: 2
\* fields give (carNumber, driverName) and no draw number; 3 fields give (carNumber,
\* driverName, drawNumber); 4 fields give (carNumber, lastName, firstName, drawNumber)
\* with driverName = firstName + " " + lastName.
C11_FieldCountDispatch ==
  RowsParsed =>
    \A k \in 1..Len(RawRows) :
      LET f == RowFields(k)
          n == Len(f)
          named == IF n = 4 THEN Trim(f[2]) # <<>> /\ Trim(f[3]) # <<>>
                   ELSE Trim(f[2]) # <<>>
          name == IF n = 4 THEN Trim(f[3]) \o <<SP>> \o Trim(f[2]) ELSE Trim(f[2])
      IN  (n \in 2..4 /\ RowCar(k) # <<>> /\ named)
            => /\ Cardinality(DriversOfRow(k)) = 1
               /\ \A i \in DriversOfRow(k) :
                    /\ pass.parsed.drivers[i].carNumber = RowCar(k)
                    /\ pass.parsed.drivers[i].driverName = name
                    /\ (n = 2 \/ RowPillText(k) = <<>>)
                         => pass.parsed.drivers[i].pillNumber = MAX_SAFE_INTEGER
                    /\ (n \in 3..4 /\ IsIntegerText(RowPillText(k)))
                         => pass.parsed.drivers[i].pillNumber = parseInt(RowPillText(k)).val

FirstDigitRun(car) ==
  LET at == {i \in 1..Len(car) : IsDigit(car[i])}
      from == MinOf(at)
      stop == {i \in from..Len(car) : ~IsDigit(car[i])}
  IN  IF at = {} THEN <<>>
      ELSE SubSeq(car, from, IF stop = {} THEN Len(car) ELSE MinOf(stop) - 1)

\* The comparator that ranks a car number by its first run of digits
FirstRunCmp(a, b) ==
  IF FirstDigitRun(a) # <<>> /\ FirstDigitRun(b) # <<>>
  THEN DigitsValue(FirstDigitRun(a)) - DigitsValue(FirstDigitRun(b))
  ELSE localeCompare(a, b)

CarsOf(ds) == [i \in 1..Len(ds) |-> ds[i].carNumber]

\* C13: entrants without a draw number are ordered by the first maximal run of digits
\* of their car numbers, numerically when both have one and on the raw car number
\* otherwise: of two entrants the second comes first exactly when it compares below the
\* first, and ["12", "5", "9a"] comes out as 5, 9a, 12.
C13_FirstDigitRunOrder ==
  pass.op = "resolve" =>
    /\ Len(drivers) = 2
         => CarsOf(pass.processed[1].drivers)
              = IF FirstRunCmp(drivers[2].carNumber, drivers[1].carNumber) < 0
                THEN <<drivers[2].carNumber, drivers[1].carNumber>>
                ELSE <<drivers[1].carNumber, drivers[2].carNumber>>
    /\ CarsOf(drivers) = << <<"1", "2">>, <<"5">>, <<"9", "a">> >>
         => CarsOf(pass.processed[1].drivers) = << <<"5">>, <<"9", "a">>, <<"1", "2">> >>

\* C14: the car-number comparator is a total order on the car numbers of the entrants:
\* a <= b and b <= c imply a <= c, and the entrants without a draw number come out
\* sorted, each at or below every entrant that follows it.
C14_ComparatorTotalOrder ==
  pass.op = "resolve" =>
    /\ \A i, j, k \in 1..Len(drivers) :
         (CarCmp(drivers[i], drivers[j]) <= 0 /\ CarCmp(drivers[j], drivers[k]) <= 0)
           => CarCmp(drivers[i], drivers[k]) <= 0
    /\ \A l \in 1..Len(pass.processed) :
         \A p, q \in 1..Len(pass.processed[l].drivers) :
           (p < q /\ HasNoPill(pass.processed[l].drivers[p]))
             => CarCmp(pass.processed[l].drivers[p], pass.processed[l].drivers[q]) <= 0

\* C15: the resolver emits no lineup for a classId that is not in the class registry
\* it is given.
C15_NoLineupForUnknownClass ==
  pass.op = "resolve" =>
    \A k \in 1..Len(pass.processed) :
      FindClassIndex(classes, pass.processed[k].classId) # 0

(***************************************************************************)
(* Properties of a parse-and-resolve pass of the application (Spec)        *)
(***************************************************************************)
\* A pass of processLineups has parsed the raw text for a class of the registry and
\* found no entrant in it
EmptyPass ==
  /\ pass.op = "processLineups"
  /\ pass.arg # ""
  /\ pass.parsed # NoParse
  /\ FindClassIndex(classes, pass.arg) # 0
  /\ pass.parsed.drivers = <<>>

\* C16: a pass for a class that yields zero entrants is not an error: it leaves in the
\* store one lineup for that class, with an empty entrant sequence, in place of the
\* prior lineup of the class.
C16_EmptyPassReplacesLineup ==
  EmptyPass =>
    /\ \A t \in 1..Len(pass.toasts) : pass.toasts[t] # "No Valid Drivers"
    /\ Cardinality({i \in 1..Len(lineups) : lineups[i].classId = pass.arg}) = 1
    /\ \A i \in 1..Len(lineups) : lineups[i].classId = pass.arg => lineups[i].drivers = <<>>

(***************************************************************************)
(* Properties of a second resolution and of the export (SpecResolver)      *)
(***************************************************************************)
\* C17: the resolver applied to the entrants of a lineup it returned gives them back
\* unchanged, entrant for entrant and field for field.
C17_ResolutionIdempotent ==
  pass.op = "resolveAgain" =>
    \A k \in 1..Len(pass.processed) : pass.output[k] = pass.processed[k].drivers

\* The cells of an inside/outside table in the order of the entrants they show: the
\* inside column from top to bottom, then the outside column
CellsInOrder(rows) ==
  LET NotEmpty(cell) == cell # <<>>
  IN  [i \in 1..Len(rows) |-> rows[i][1]] \o Filter([i \in 1..Len(rows) |-> rows[i][2]], NotEmpty)

\* C18: the export lays out the entrants of every lineup in the order of the resolved
\* lineup.
C18_ExportKeepsResolvedOrder ==
  pass.op = "exportLineups" =>
    \A k \in 1..Len(pass.processed) :
      CellsInOrder(pass.output[k].drivers)
        = [i \in 1..Len(pass.processed[k].drivers) |->
             CellText(pass.processed[k].drivers[i],
                      IF pass.arg = "pdf" THEN formatDriverName(pass.processed[k].drivers[i])
                      ELSE formatDriverNameForExcel(pass.processed[k].drivers[i]))]

\* A raw text that is empty or holds white space only
IsBlank(text) == \A i \in 1..Len(text) : IsWhite(text[i])

\* C19: processLineups called with blank raw text or with no selected class signals the
\* failure of the precondition before any parsing, returns null and leaves the lineup
\* store and the raw text unchanged.
C19_PreconditionFailure ==
  [][(pass'.op = "processLineups" /\ (IsBlank(rawData) \/ pass'.arg = ""))
       => /\ pass'.toasts = IF IsBlank(rawData) THEN <<"No Data">> ELSE <<"No Class Selected">>
          /\ pass'.parsed = NoParse
          /\ pass'.processed = <<>>
          /\ pass'.ret = NULL
          /\ lineups' = lineups
          /\ rawData' = rawData]_vars

\* C19 witness: processLineups has been called for a class on a raw text of white space
\* while the store held a lineup.
C19_Witness ==
  /\ pass.op = "processLineups"
  /\ pass.arg # ""
  /\ rawData = <<SP>>
  /\ pass.toasts = <<"No Data">>
  /\ lineups # <<>>

\* C20: with an empty class registry a parse-and-resolve pass aborts as a whole:
\* parseRawData returns the no-classes error and no entrant, no lineup is produced and
\* the lineup store is left unchanged.
C20_EmptyRegistryAborts ==
  [][(pass'.op = "processLineups" /\ classes = <<>> /\ ~IsBlank(rawData) /\ pass'.arg # "")
       => /\ pass'.parsed.drivers = <<>>
          /\ pass'.parsed.errors = <<ParseError(0, "NoClasses")>>
          /\ pass'.processed = <<>>
          /\ pass'.ret = NULL
          /\ lineups' = lineups]_vars

\* C20 witness: processLineups has been called on a raw text with rows while the
\* registry was empty.
C20_Witness ==
  /\ pass.op = "processLineups"
  /\ classes = <<>>
  /\ Len(pass.parsed.errors) = 1
  /\ pass.parsed.errors[1].kind = "NoClasses"
  /\ pass.toasts = <<"Warning", "No Valid Drivers">>

\* C21: a batch that holds a valid row together with malformed or invalid-draw rows
\* succeeds in part: the lineup built from the valid rows is in the store after the
\* pass, and the errors are reported alongside, one warning for each, without blocking
\* the update.
C21_PartialSuccess ==
  (pass.op = "processLineups" /\ pass.parsed.drivers # <<>> /\ pass.parsed.errors # <<>>)
    => /\ Len(pass.processed) = 1
       /\ pass.processed[1].classId = pass.arg
       /\ Len(pass.processed[1].drivers) = Len(pass.parsed.drivers)
       /\ \E i \in 1..Len(lineups) : lineups[i] = pass.processed[1]
       /\ pass.toasts = [i \in 1..Len(pass.parsed.errors) |-> "Warning"]
                          \o <<"Lineup Processed">>

\* C21 witness: a pass over a valid row, a row with one field and a row with an
\* unparsable draw number has put the lineup of the entrants of the first and the third
\* row in the store.
C21_Witness ==
  /\ pass.op = "processLineups"
  /\ Len(pass.parsed.drivers) = 2
  /\ Len(pass.parsed.errors) = 2
  /\ pass.parsed.errors[1].kind = "NotEnoughData"
  /\ pass.parsed.errors[2].kind = "InvalidPill"
  /\ \E i \in 1..Len(lineups) : lineups[i].classId = pass.arg /\ Len(lineups[i].drivers) = 2

\* C22: a row of the raw text that is empty after trimming is skipped: it gives no
\* entrant and no error, and the entrants and errors of the text are those of its other
\* rows.
C22_BlankRowsSkipped ==
  RowsParsed =>
    /\ \A k \in 1..Len(RawRows) :
         Trim(RawRows[k]) = <<>> => (DriversOfRow(k) = {} /\ ErrorsOfRow(k) = {})
    /\ \A i \in 1..Len(pass.parsed.driverRows) :
         /\ pass.parsed.driverRows[i] \in 1..Len(RawRows)
         /\ Trim(RawRows[pass.parsed.driverRows[i]]) # <<>>
    /\ \A e \in 1..Len(pass.parsed.errorRows) :
         /\ pass.parsed.errorRows[e] \in 1..Len(RawRows)
         /\ Trim(RawRows[pass.parsed.errorRows[e]]) # <<>>

\* C22 witness: a text with a blank row between two rows that each gave an entrant,
\* parsed without any error.
C22_Witness ==
  /\ RowsParsed
  /\ Len(RawRows) = 3
  /\ Trim(RawRows[2]) = <<>>
  /\ RawRows[2] # <<>>
  /\ pass.parsed.driverRows = <<1, 3>>
  /\ pass.parsed.errors = <<>>

(***************************************************************************)
(* Further properties of the lineup resolver (SpecResolver)                *)
(***************************************************************************)
\* The positions of a resolved lineup that hold an entrant with a draw number
PillPositions(lineup) == {p \in 1..Len(lineup.drivers) : HasPill(lineup.drivers[p])}

\* C23: along the entrants with a draw number of a resolved lineup, each entrant's
\* effective draw number is the smallest integer >= its own draw number that no earlier
\* entrant has been assigned; so effective >= original for every entrant, and the
\* original draw numbers are non-decreasing along the final order.
C23_SmallestFreeSlot ==
  pass.op = "resolve" =>
    \A k \in 1..Len(pass.processed) :
      LET lineup == pass.processed[k]
          ds == lineup.drivers
      IN  \A p \in PillPositions(lineup) :
            LET taken == {ds[q].pillNumber : q \in {r \in PillPositions(lineup) : r < p}}
            IN  /\ ds[p].pillNumber >= InputPill(lineup, ds[p])
                /\ ds[p].pillNumber \notin taken
                /\ \A v \in InputPill(lineup, ds[p])..(ds[p].pillNumber - 1) : v \in taken
                /\ \A q \in PillPositions(lineup) :
                     q < p => InputPill(lineup, ds[q]) <= InputPill(lineup, ds[p])

\* C23 witness: an entrant has been moved two slots above its own draw number.
C23_Witness ==
  /\ pass.op = "resolve"
  /\ \E k \in 1..Len(pass.processed) :
       \E p \in PillPositions(pass.processed[k]) :
         pass.processed[k].drivers[p].pillNumber
           >= InputPill(pass.processed[k], pass.processed[k].drivers[p]) + 2

SuccessfulPass == pass'.op = "processLineups" /\ pass'.processed # <<>>

\* C25: after a successful pass for the selected class the raw text is cleared exactly
\* when the next class in registry order, wrapping from the last class to the first,
\* has no lineup in the store, and is kept otherwise.
C25_ClearsWhenNextClassEmpty ==
  [][SuccessfulPass
       => /\ pass'.ret = getNextClass(classes, pass'.arg)
          /\ pass'.ret # NULL
          /\ IF \E i \in 1..Len(lineups') : lineups'[i].classId = pass'.ret
             THEN rawData' = rawData
             ELSE rawData' = <<>>]_vars

\* C26: after any sequence of operations the lineup store holds at most one lineup for
\* each classId.
C26_OneLineupPerClass ==
  \A i, j \in 1..Len(lineups) : lineups[i].classId = lineups[j].classId => i = j

\* C26 witness: a class that had a lineup in the store has been processed again while
\* the store also held the lineup of another class.
C26_Witness ==
  /\ pass.op = "processLineups"
  /\ pass.dropped # <<>>
  /\ Len(lineups) >= 2
  /\ lineups[Len(lineups)].classId = pass.arg

\* C27: the resolver neither drops nor duplicates entrants: every class of the input
\* has one lineup, and the lineup of a class holds each input entrant of the class
\* exactly once, with its car number and driver name, and no other entrant.
C27_EntrantsPreserved ==
  pass.op = "resolve" =>
    /\ \A i \in 1..Len(drivers) :
         Cardinality({k \in 1..Len(pass.processed) :
                        pass.processed[k].classId = drivers[i].classId}) = 1
    /\ \A k \in 1..Len(pass.processed) :
         LET ds == pass.processed[k].drivers
             input == InputOfClass(pass.processed[k].classId)
         IN  /\ Len(ds) = Len(input)
             /\ Len(input) > 0
             /\ \A n \in 1..Len(input) :
                  Cardinality({p \in 1..Len(ds) : ds[p].originalOrder = n - 1}) = 1
             /\ \A p \in 1..Len(ds) :
                  /\ ds[p].originalOrder + 1 \in 1..Len(input)
                  /\ ds[p].carNumber = input[ds[p].originalOrder + 1].carNumber
                  /\ ds[p].driverName = input[ds[p].originalOrder + 1].driverName
                  /\ ds[p].classId = input[ds[p].originalOrder + 1].classId
                  /\ ds[p].className = input[ds[p].originalOrder + 1].className
                  /\ HasPill(ds[p]) <=> HasPill(input[ds[p].originalOrder + 1])

\* C27 witness: two classes resolved at once, one of them with a duplicate draw number
\* and an entrant without a draw number.
C27_Witness ==
  /\ pass.op = "resolve"
  /\ Len(pass.processed) = 2
  /\ \E k \in 1..2 :
       /\ SharedPills(pass.processed[k]) # {}
       /\ \E p \in 1..Len(pass.processed[k].drivers) : HasNoPill(pass.processed[k].drivers[p])

\* C28: a pass in which parsing yields no valid entrant, every row being malformed or
\* the selected class id not being in the registry, leaves the lineup store and the raw
\* text unchanged and returns null.
C28_EmptyParseLeavesState ==
  [][(pass'.op = "processLineups" /\ ~IsBlank(rawData) /\ pass'.arg # ""
        /\ parseRawData(rawData, classes, pass'.arg).drivers = <<>>)
       => /\ lineups' = lineups
          /\ rawData' = rawData
          /\ pass'.ret = NULL
          /\ pass'.processed = <<>>
          /\ pass'.toasts[Len(pass'.toasts)] = "No Valid Drivers"]_vars

\* C28 witness: a pass for a class id that is not in the registry, on a text with valid
\* rows, while the store held a lineup.
C28_Witness ==
  /\ pass.op = "processLineups"
  /\ Len(pass.parsed.errors) = 1
  /\ pass.parsed.errors[1].kind = "ClassNotFound"
  /\ classes # <<>>
  /\ lineups # <<>>
  /\ rawData = <<"7", TAB, "A", TAB, "5", NL, "9", TAB, "B", TAB, "5">>

\* C29: every stored lineup's className is the current name of the class of the
\* registry that has its classId.
C29_LineupNamesCurrent ==
  \A i \in 1..Len(lineups) :
    \A j \in 1..Len(classes) :
      classes[j].id = lineups[i].classId => lineups[i].className = classes[j].name

(***************************************************************************)
(* Line numbers of the row parser (SpecParser)                             *)
(***************************************************************************)
\* C30: the line number cited in each error of parseRawData is the 1-based position of
\* its row in the raw text as supplied, blank rows counted, those before the first
\* non-blank row included.
C30_ErrorCitesRowOfText ==
  RowsParsed =>
    \A e \in 1..Len(pass.parsed.errors) :
      pass.parsed.errors[e].line = pass.parsed.errorRows[e]

====
